---- MODULE Spec2Model ----
(***************************************************************************)
(* Model of mcs.py: a Monte Carlo life-support simulator.                  *)
(*                                                                         *)
(* Quantities are fixed point integers:                                    *)
(*   oxygen        0.01 kg        water, waste water   0.01 L              *)
(*   power         0.01 kWh       food                 1 kCal              *)
(*   sunlight efficiency  1/10000  bio factor  percent                     *)
(* CropModule.health is an IEEE-754 double in [0, 1]; it is kept exactly   *)
(* as an integer multiple of 2^-56 split in two 28 bit limbs <<hi, lo>>,   *)
(* and every addition is rounded to 53 significant bits, ties to even.     *)
(***************************************************************************)
EXTENDS Integers, Sequences, FiniteSets, TLC

\* ------------------------------------------------------------------ bounds
\* largest value of math.ceil(random.lognormvariate(1.0, 0.8)) explored
MaxRepair == 2
\* number of random draws of one mission that may leave their typical outcome
\* (a machine failure, a storm trigger, a bio factor off 1.0)
DrawBudget == 1
\* number of daily_check calls explored on a stand-alone Machine
MaxChecks == 6
\* number of grow calls explored on a stand-alone CropModule
MaxGrows == 18
\* run_mcs is called with 0..MaxTrials simulations
MaxTrials == 2

\* --------------------------------------------------- module level constants
mission_duration == 500
crew_size == 6

Modes == {"CONTROL", "OXYGENATOR_REDUNDANCY_TEST", "BATTERY_TEST"}

\* MCSimConfig.__init__
MCSimConfig(mode) ==
  [ mode |-> mode,
    daily_o2_consumption |-> 82,
    daily_water_consumption |-> 250,
    daily_food_consumption |-> 3035,
    daily_base_power_consumption |-> 8500,
    starting_o2 |-> 800,
    max_o2_tank |-> 5000,
    starting_water |-> 100000,
    max_water_tank |-> 200000,
    starting_battery |-> 50000,
    starting_food |-> 50000,
    crop_daily_water_need |-> 1000,
    crop_food_production |-> 30000,
    crop_o2_production |-> 100,
    num_oxygenators |-> IF mode = "OXYGENATOR_REDUNDANCY_TEST" THEN 3 ELSE 1,
    oxygenator_mtbf |-> 120,
    oxygenator_power_cost |-> IF mode = "OXYGENATOR_REDUNDANCY_TEST" THEN 400 ELSE 1200,
    o2_production_rate |-> IF mode = "OXYGENATOR_REDUNDANCY_TEST" THEN 250 ELSE 750,
    num_water_reclaimers |-> 1,
    water_reclaimer_mtbf |-> 120,
    water_reclaimer_power_cost |-> 300,
    water_reclamation_rate |-> 3000,
    water_recycle_efficiency |-> 97,
    solar_capacity |-> IF mode = "BATTERY_TEST" THEN 45 - 10 ELSE 45,
    max_battery |-> IF mode = "BATTERY_TEST" THEN 50000 + 10 * 50 * 100 ELSE 50000 ]

Min(a, b) == IF a < b THEN a ELSE b
Max(a, b) == IF a > b THEN a ELSE b

\* ------------------------------------------------------------------ Machine
\* Machine.__init__
NewMachine(rate, mtbf) ==
  [ production_rate |-> rate, mtbf |-> mtbf, is_broken |-> FALSE, days_to_repair |-> 0 ]

\* The random outcomes of one daily_check on a machine that is not broken:
\* 0 is "random.random() >= fail_prob", k >= 1 is a failure whose
\* math.ceil(repair_time) is k.
FailureDraws == 0..MaxRepair

\* daily_check that produces again on the very day the repair completes
DailyCheck_M7(m, draw) ==
  IF m.is_broken
  THEN LET d == m.days_to_repair - 1
       IN  IF d <= 0
           THEN [ m |-> [m EXCEPT !.is_broken = FALSE, !.days_to_repair = 0],
                  out |-> m.production_rate ]
           ELSE [ m |-> [m EXCEPT !.days_to_repair = d], out |-> 0 ]
  ELSE IF draw > 0
       THEN [ m |-> [m EXCEPT !.is_broken = TRUE, !.days_to_repair = draw], out |-> 0 ]
       ELSE [ m |-> m, out |-> m.production_rate ]

\* daily_check that rounds the repair time down instead of up
DailyCheck_M8(m, draw) ==
  IF m.is_broken
  THEN LET d == m.days_to_repair - 1
       IN  [ m |-> IF d <= 0 THEN [m EXCEPT !.is_broken = FALSE, !.days_to_repair = 0]
                             ELSE [m EXCEPT !.days_to_repair = d],
             out |-> 0 ]
  ELSE IF draw > 0
       THEN [ m |-> [m EXCEPT !.is_broken = TRUE, !.days_to_repair = draw - 1], out |-> 0 ]
       ELSE [ m |-> m, out |-> m.production_rate ]

\* Machine.daily_check: the machine after the call and the value returned.
DailyCheck(m, draw) ==
  IF m.is_broken
  THEN LET d == m.days_to_repair - 1
       IN  [ m |-> IF d <= 0 THEN [m EXCEPT !.is_broken = FALSE, !.days_to_repair = 0]
                             ELSE [m EXCEPT !.days_to_repair = d],
             out |-> 0 ]
  ELSE IF draw > 0
       THEN [ m |-> [m EXCEPT !.is_broken = TRUE, !.days_to_repair = draw], out |-> 0 ]
       ELSE [ m |-> m, out |-> m.production_rate ]

\* ----------------------------------------------------- double arithmetic
\* a health value h stands for (h[1] * Limb + h[2]) / 2^56
Limb == 268435456
FOne == <<Limb, 0>>
FZero == <<0, 0>>
\* the doubles nearest to 0.2 and 0.1
FTwoTenths == <<53687091, 53687092>>
FOneTenth == <<26843545, 161061274>>

FLeq(a, b) == a[1] < b[1] \/ (a[1] = b[1] /\ a[2] <= b[2])

\* round a non-negative exact value to the nearest double, ties to even
FRound(x) ==
  LET q == IF x[1] < 33554432 THEN 1
           ELSE IF x[1] < 67108864 THEN 2
           ELSE IF x[1] < 134217728 THEN 4
           ELSE IF x[1] < Limb THEN 8 ELSE 16
      r == x[2] % q
      base == x[2] - r
      up == 2 * r > q \/ (2 * r = q /\ (base \div q) % 2 = 1)
      lo == IF up THEN base + q ELSE base
  IN  IF lo >= Limb THEN <<x[1] + 1, lo - Limb>> ELSE <<x[1], lo>>

\* a + b in double arithmetic
FAdd(a, b) ==
  LET lo == a[2] + b[2]
  IN  FRound(IF lo >= Limb THEN <<a[1] + b[1] + 1, lo - Limb>> ELSE <<a[1] + b[1], lo>>)

\* max(0.0, a - b) in double arithmetic
FSubFloor0(a, b) ==
  IF FLeq(a, b) THEN FZero
  ELSE FRound(IF a[2] >= b[2] THEN <<a[1] - b[1], a[2] - b[2]>>
                              ELSE <<a[1] - b[1] - 1, a[2] + Limb - b[2]>>)

\* min(1.0, h)
FMin1(h) == IF FLeq(FOne, h) THEN FOne ELSE h

\* --------------------------------------------------------------- CropModule
\* CropModule.__init__
NewCrop(base_food, base_o2) == [ base_food |-> base_food, base_o2 |-> base_o2, health |-> FOne ]

\* the values of max(0.8, min(1.2, random.gauss(1.0, 0.1))) explored
BioFactors == {80, 100, 120}

\* base * bio_factor * health, from the 14 leading bits of health
Yield(base, bio, h) == (((base * bio) \div 100) * (h[1] \div 16384)) \div 16384

\* health after "self.health -= 0.2 / += 0.1" and the clamp to [0, 1]
HealthUpdate(h, has_water) ==
  IF has_water THEN FMin1(FAdd(h, FOneTenth)) ELSE FMin1(FSubFloor0(h, FTwoTenths))

\* CropModule.grow: the crop after the call and the pair returned.  zero is
\* TRUE when the literal (0.0, 0.0) is returned; otherwise both products
\* base * bio_factor * health are positive doubles, however small.
Grow(c, has_water, bio) ==
  LET h == HealthUpdate(c.health, has_water)
  IN  IF FLeq(h, FZero)
      THEN [ c |-> [c EXCEPT !.health = FZero], food |-> 0, o2 |-> 0, zero |-> TRUE ]
      ELSE [ c |-> [c EXCEPT !.health = h],
             food |-> Max(0, Yield(c.base_food, bio, h)),
             o2 |-> Max(0, Yield(c.base_o2, bio, h)),
             zero |-> FALSE ]

\* ---------------------------------------------------------- MarsEnvironment
\* MarsEnvironment.__init__
NewEnvironment == [ is_storming |-> FALSE, storm_counter |-> 0 ]

\* round(10000 * exp(-(0.65 - 0.35 * sin(radians(Ls))))) for Ls = 0 .. 359
SeasonEfficiency ==
   << 
      5220, 5252, 5285, 5317, 5349, 5382, 5415, 5448, 5481, 5514, 5548, 5581,
      5615, 5648, 5682, 5715, 5749, 5783, 5817, 5851, 5884, 5918, 5952, 5986,
      6019, 6053, 6086, 6120, 6153, 6186, 6219, 6252, 6284, 6317, 6349, 6381,
      6413, 6444, 6476, 6507, 6538, 6568, 6598, 6628, 6657, 6686, 6715, 6743,
      6771, 6799, 6826, 6852, 6878, 6904, 6929, 6954, 6978, 7001, 7024, 7047,
      7069, 7090, 7111, 7131, 7150, 7169, 7187, 7205, 7222, 7238, 7253, 7268,
      7282, 7296, 7308, 7320, 7332, 7342, 7352, 7361, 7369, 7376, 7383, 7389,
      7394, 7398, 7402, 7405, 7407, 7408, 7408, 7408, 7407, 7405, 7402, 7398,
      7394, 7389, 7383, 7376, 7369, 7361, 7352, 7342, 7332, 7320, 7308, 7296,
      7282, 7268, 7253, 7238, 7222, 7205, 7187, 7169, 7150, 7131, 7111, 7090,
      7069, 7047, 7024, 7001, 6978, 6954, 6929, 6904, 6878, 6852, 6826, 6799,
      6771, 6743, 6715, 6686, 6657, 6628, 6598, 6568, 6538, 6507, 6476, 6444,
      6413, 6381, 6349, 6317, 6284, 6252, 6219, 6186, 6153, 6120, 6086, 6053,
      6019, 5986, 5952, 5918, 5884, 5851, 5817, 5783, 5749, 5715, 5682, 5648,
      5615, 5581, 5548, 5514, 5481, 5448, 5415, 5382, 5349, 5317, 5285, 5252,
      5220, 5189, 5157, 5126, 5095, 5064, 5033, 5002, 4972, 4942, 4913, 4883,
      4854, 4825, 4797, 4768, 4740, 4713, 4685, 4658, 4631, 4605, 4579, 4553,
      4528, 4503, 4478, 4453, 4429, 4406, 4382, 4359, 4337, 4314, 4292, 4271,
      4250, 4229, 4208, 4188, 4169, 4149, 4130, 4112, 4094, 4076, 4059, 4041,
      4025, 4009, 3993, 3977, 3962, 3947, 3933, 3919, 3906, 3892, 3880, 3867,
      3855, 3844, 3833, 3822, 3811, 3801, 3792, 3783, 3774, 3765, 3757, 3750,
      3742, 3735, 3729, 3723, 3717, 3712, 3707, 3703, 3698, 3695, 3691, 3688,
      3686, 3684, 3682, 3681, 3680, 3679, 3679, 3679, 3680, 3681, 3682, 3684,
      3686, 3688, 3691, 3695, 3698, 3703, 3707, 3712, 3717, 3723, 3729, 3735,
      3742, 3750, 3757, 3765, 3774, 3783, 3792, 3801, 3811, 3822, 3833, 3844,
      3855, 3867, 3880, 3892, 3906, 3919, 3933, 3947, 3962, 3977, 3993, 4009,
      4025, 4041, 4059, 4076, 4094, 4112, 4130, 4149, 4169, 4188, 4208, 4229,
      4250, 4271, 4292, 4314, 4337, 4359, 4382, 4406, 4429, 4453, 4478, 4503,
      4528, 4553, 4579, 4605, 4631, 4658, 4685, 4713, 4740, 4768, 4797, 4825,
      4854, 4883, 4913, 4942, 4972, 5002, 5033, 5064, 5095, 5126, 5157, 5189
   >>

\* round(10000 * exp(-4.0)): the factor of the storm opacity
StormFactor == 183

\* the outcomes of the two draws of a calm day inside the risk window:
\* 0 is "random.random() >= 0.005", d is a trigger with random.randint(5, 15) = d
StormDraws == {0} \cup (5..15)

\* get_sunlight_efficiency whose risk window includes its two ends
GetSunlightEfficiency_M11(e, Ls_degrees, draw) ==
  LET base == SeasonEfficiency[Ls_degrees + 1]
      counter == e.storm_counter - 1
      e1 == IF e.is_storming
            THEN [ is_storming |-> ~(counter <= 0), storm_counter |-> counter ]
            ELSE IF 200 <= Ls_degrees /\ Ls_degrees <= 300 /\ draw > 0
                 THEN [ is_storming |-> TRUE, storm_counter |-> draw ]
                 ELSE e
      storm_opacity == IF e.is_storming THEN 4 ELSE 0
      efficiency == IF storm_opacity = 4 THEN (base * StormFactor) \div 10000 ELSE base
  IN  [ e |-> e1, storm_opacity |-> storm_opacity, eff |-> Max(200, efficiency) ]

\* get_sunlight_efficiency that takes the opacity from the state it leaves
GetSunlightEfficiency_M18(e, Ls_degrees, draw) ==
  LET base == SeasonEfficiency[Ls_degrees + 1]
      counter == e.storm_counter - 1
      e1 == IF e.is_storming
            THEN [ is_storming |-> ~(counter <= 0), storm_counter |-> counter ]
            ELSE IF 200 < Ls_degrees /\ Ls_degrees < 300 /\ draw > 0
                 THEN [ is_storming |-> TRUE, storm_counter |-> draw ]
                 ELSE e
      storm_opacity == IF e1.is_storming THEN 4 ELSE 0
      efficiency == IF storm_opacity = 4 THEN (base * StormFactor) \div 10000 ELSE base
  IN  [ e |-> e1, storm_opacity |-> storm_opacity, eff |-> Max(200, efficiency) ]

\* MarsEnvironment.get_sunlight_efficiency: the environment after the call,
\* the storm opacity applied and the efficiency returned.
GetSunlightEfficiency(e, Ls_degrees, draw) ==
  LET base == SeasonEfficiency[Ls_degrees + 1]
      counter == e.storm_counter - 1
      e1 == IF e.is_storming
            THEN [ is_storming |-> ~(counter <= 0), storm_counter |-> counter ]
            ELSE IF 200 < Ls_degrees /\ Ls_degrees < 300 /\ draw > 0
                 THEN [ is_storming |-> TRUE, storm_counter |-> draw ]
                 ELSE e
      storm_opacity == IF e.is_storming THEN 4 ELSE 0
      efficiency == IF storm_opacity = 4 THEN (base * StormFactor) \div 10000 ELSE base
  IN  [ e |-> e1, storm_opacity |-> storm_opacity, eff |-> Max(200, efficiency) ]

\* ------------------------------------------------------------------- state
VARIABLES
  cfg,               \* MarsColony.cfg
  crew,              \* the crew size the colony is run with
  day, alive, cause_of_death,
  o2, water, waste_water, battery, food,
  env, crops, oxygenators, water_reclaimers,
  pc,                \* run_mission: "loop" inside the for loop, "done" once returned
  iter,              \* run_mission: iterations of the for loop begun so far
  history,           \* run_mission's history: its length and the day of its last snapshot
  last,              \* the locals of the latest step(), kept for the properties
  deviations,        \* draws of this mission that left their typical outcome
  unit,              \* a stand-alone Machine and the record of its daily_check calls
  plot,              \* a stand-alone CropModule and the record of its grow calls
  sky,               \* a stand-alone MarsEnvironment and the record of its calls
  mcs,               \* run_mcs: its position, arguments and locals
  drought            \* TRUE once every failure draw of the water reclaimers fails

vars == << cfg, crew, day, alive, cause_of_death, o2, water, waste_water, battery, food,
           env, crops, oxygenators, water_reclaimers, pc, iter, history, last,
           deviations, unit, plot, sky, mcs, drought >>

colonyVars == << cfg, crew, day, alive, cause_of_death, o2, water, waste_water, battery,
                 food, env, crops, oxygenators, water_reclaimers, pc, iter, history,
                 last, deviations >>

\* ---------------------------------------------------------------- MarsColony
NoCalls(n) == [ i \in 1..n |-> 0 ]

NoStep(c) ==
  [ battery_before |-> 0, o2_before |-> 0, water_before |-> 0, power_gen |-> 0,
    available_power |-> 0, total_power_need |-> 0, crop_water_available |-> FALSE,
    waste_before |-> 0, water_reclaimed |-> 0, o2_produced |-> 0, total_water_need |-> 0,
    oxy_calls |-> NoCalls(c.num_oxygenators), rec_calls |-> NoCalls(c.num_water_reclaimers),
    oxy_out |-> NoCalls(c.num_oxygenators), rec_out |-> NoCalls(c.num_water_reclaimers) ]

\* MarsColony.__init__: the fields of a colony built from the configuration c
NewColony(c, crewSize) ==
  [ cfg |-> c,
    crew |-> crewSize,
    day |-> 0,
    alive |-> TRUE,
    cause_of_death |-> "",
    o2 |-> c.starting_o2,
    water |-> c.starting_water,
    waste_water |-> 0,
    battery |-> c.starting_battery,
    food |-> c.starting_food,
    env |-> NewEnvironment,
    crops |-> NewCrop(c.crop_food_production, c.crop_o2_production),
    oxygenators |-> [ i \in 1..c.num_oxygenators |->
                        NewMachine(c.o2_production_rate, c.oxygenator_mtbf) ],
    water_reclaimers |-> [ i \in 1..c.num_water_reclaimers |->
                             NewMachine(c.water_reclamation_rate, c.water_reclaimer_mtbf) ] ]

\* colony = MarsColony(c), with run_mission at the given position
ColonyAt(c, crewSize, position) ==
  \E k \in {NewColony(c, crewSize)} :
    /\ cfg = k.cfg
    /\ crew = k.crew
    /\ day = k.day
    /\ alive = k.alive
    /\ cause_of_death = k.cause_of_death
    /\ o2 = k.o2
    /\ water = k.water
    /\ waste_water = k.waste_water
    /\ battery = k.battery
    /\ food = k.food
    /\ env = k.env
    /\ crops = k.crops
    /\ oxygenators = k.oxygenators
    /\ water_reclaimers = k.water_reclaimers
    /\ pc = position
    /\ iter = 0
    /\ history = [ len |-> 0, day |-> 0 ]
    /\ last = NoStep(c)
    /\ deviations = 0

\* colony = MarsColony(c), about to enter run_mission
ColonyStart(c, crewSize) == ColonyAt(c, crewSize, "loop")

\* MarsColony(MCSimConfig(mode))
ColonyInit(mode, crewSize) == ColonyStart(MCSimConfig(mode), crewSize)

\* a gate that looks at the tank only
Gate_M19(available_power, machine_power, needs) == needs

\* a gate that looks at the power only
Gate_M6(available_power, machine_power, needs) == available_power >= machine_power

\* "if available_power >= machine_power and needs_..." of both machine loops
Gate(available_power, machine_power, needs) == available_power >= machine_power /\ needs

\* an oxygenator loop that runs daily_check on a unit that failed the gate and
\* throws its output away
RECURSIVE RunOxygenators_M16(_, _, _, _, _)
RunOxygenators_M16(i, acc, machine_power, needs_o2, draws) ==
  IF i > Len(acc.machines) THEN acc
  ELSE LET r == DailyCheck(acc.machines[i], draws[i])
       IN  IF Gate(acc.available_power, machine_power, needs_o2)
           THEN RunOxygenators_M16(i + 1,
                  [ machines |-> [acc.machines EXCEPT ![i] = r.m],
                    produced |-> acc.produced + r.out,
                    available_power |-> acc.available_power - machine_power,
                    total_power_need |-> acc.total_power_need + machine_power,
                    calls |-> [acc.calls EXCEPT ![i] = @ + 1],
                    out |-> [acc.out EXCEPT ![i] = r.out] ],
                  machine_power, needs_o2, draws)
           ELSE RunOxygenators_M16(i + 1,
                  [ acc EXCEPT !.machines = [acc.machines EXCEPT ![i] = r.m] ],
                  machine_power, needs_o2, draws)

\* an oxygenator loop that charges a dispatched unit only when it delivers
RECURSIVE RunOxygenators_M17(_, _, _, _, _)
RunOxygenators_M17(i, acc, machine_power, needs_o2, draws) ==
  IF i > Len(acc.machines) THEN acc
  ELSE IF Gate(acc.available_power, machine_power, needs_o2)
       THEN LET r == DailyCheck(acc.machines[i], draws[i])
                charged == IF r.out > 0 THEN machine_power ELSE 0
            IN  RunOxygenators_M17(i + 1,
                  [ machines |-> [acc.machines EXCEPT ![i] = r.m],
                    produced |-> acc.produced + r.out,
                    available_power |-> acc.available_power - charged,
                    total_power_need |-> acc.total_power_need + charged,
                    calls |-> [acc.calls EXCEPT ![i] = @ + 1],
                    out |-> [acc.out EXCEPT ![i] = r.out] ],
                  machine_power, needs_o2, draws)
       ELSE RunOxygenators_M17(i + 1, acc, machine_power, needs_o2, draws)

\* the oxygenator loop of step(), from unit i on
RECURSIVE RunOxygenators(_, _, _, _, _)
RunOxygenators(i, acc, machine_power, needs_o2, draws) ==
  IF i > Len(acc.machines) THEN acc
  ELSE IF Gate(acc.available_power, machine_power, needs_o2)
       THEN LET r == DailyCheck(acc.machines[i], draws[i])
            IN  RunOxygenators(i + 1,
                  [ machines |-> [acc.machines EXCEPT ![i] = r.m],
                    produced |-> acc.produced + r.out,
                    available_power |-> acc.available_power - machine_power,
                    total_power_need |-> acc.total_power_need + machine_power,
                    calls |-> [acc.calls EXCEPT ![i] = @ + 1],
                    out |-> [acc.out EXCEPT ![i] = r.out] ],
                  machine_power, needs_o2, draws)
       ELSE RunOxygenators(i + 1, acc, machine_power, needs_o2, draws)

\* the reclaimer output taken without looking at the waste tank
ActualProcessed_M9(out, waste) == out

\* "min(water_rec.daily_check(), self.waste_water)"
ActualProcessed(out, waste) == Min(out, waste)

\* the water reclaimer loop of step(), from unit i on
RECURSIVE RunReclaimers(_, _, _, _, _)
RunReclaimers(i, acc, machine_power, needs_water, draws) ==
  IF i > Len(acc.machines) THEN acc
  ELSE IF Gate(acc.available_power, machine_power, needs_water)
       THEN LET r == DailyCheck(acc.machines[i], draws[i])
                actual_processed == ActualProcessed(r.out, acc.waste_water)
            IN  RunReclaimers(i + 1,
                  [ machines |-> [acc.machines EXCEPT ![i] = r.m],
                    produced |-> acc.produced + actual_processed,
                    waste_water |-> acc.waste_water - actual_processed,
                    available_power |-> acc.available_power - machine_power,
                    total_power_need |-> acc.total_power_need + machine_power,
                    calls |-> [acc.calls EXCEPT ![i] = @ + 1],
                    out |-> [acc.out EXCEPT ![i] = actual_processed] ],
                  machine_power, needs_water, draws)
       ELSE RunReclaimers(i + 1, acc, machine_power, needs_water, draws)

\* a balance update without its clamp
ClampMax_M2(x, max) == x

\* "if x > max: x = max" of the power, oxygen and water balances
ClampMax(x, max) == IF x > max THEN max ELSE x

\* the demand of the module level crew, whatever crew the colony is run with
CrewNeed_M3(rate, crewSize) == rate * crew_size

\* per-capita rate * crew_size
CrewNeed(rate, crewSize) == rate * crewSize

\* a survival check without its oxygen branch
SurvivalCheck_M1(b, o, w, f, wasAlive, cause) ==
  IF b < 0 THEN [ alive |-> FALSE, cause_of_death |-> "Power Failure" ]
  ELSE IF w < 0 THEN [ alive |-> FALSE, cause_of_death |-> "Dehydration" ]
  ELSE IF f < 0 THEN [ alive |-> FALSE, cause_of_death |-> "Starvation" ]
  ELSE [ alive |-> wasAlive, cause_of_death |-> cause ]

\* a survival check that tests the oxygen before the battery and labels both alike
SurvivalCheck_M4(b, o, w, f, wasAlive, cause) ==
  IF o < 0 \/ b < 0 THEN [ alive |-> FALSE, cause_of_death |-> "Power Failure" ]
  ELSE IF w < 0 THEN [ alive |-> FALSE, cause_of_death |-> "Dehydration" ]
  ELSE IF f < 0 THEN [ alive |-> FALSE, cause_of_death |-> "Starvation" ]
  ELSE [ alive |-> wasAlive, cause_of_death |-> cause ]

\* "7. Check Survival Conditions" of step()
SurvivalCheck(b, o, w, f, wasAlive, cause) ==
  IF b < 0 THEN [ alive |-> FALSE, cause_of_death |-> "Power Failure" ]
  ELSE IF o < 0 THEN [ alive |-> FALSE, cause_of_death |-> "Suffocation" ]
  ELSE IF w < 0 THEN [ alive |-> FALSE, cause_of_death |-> "Dehydration" ]
  ELSE IF f < 0 THEN [ alive |-> FALSE, cause_of_death |-> "Starvation" ]
  ELSE [ alive |-> wasAlive, cause_of_death |-> cause ]

\* an irrigation test that forgets the crew's demand
CropWaterAvailable_M20(stock, crew_need, crop_need) == stock >= crop_need

\* "if self.water >= total_water_need + self.cfg.crop_daily_water_need"
CropWaterAvailable(stock, crew_need, crop_need) == stock >= crew_need + crop_need

\* MarsColony.step under the given outcomes of its random draws: the colony
\* fields after the call, and the locals of the call.
StepResult(stormDraw, bio, oxyDraws, recDraws) ==
  LET day1 == day + 1
      sun == GetSunlightEfficiency(env, day1 % 360, stormDraw)
      power_gen == (cfg.solar_capacity * sun.eff * 8) \div 100
      base_power == cfg.daily_base_power_consumption
      available_power == battery + power_gen - base_power
      total_o2_need == CrewNeed(cfg.daily_o2_consumption, crew)
      crew_water_need == CrewNeed(cfg.daily_water_consumption, crew)
      total_food_need == CrewNeed(cfg.daily_food_consumption, crew)
      crop_water_available == CropWaterAvailable(water, crew_water_need,
                                                 cfg.crop_daily_water_need)
      total_water_need == IF crop_water_available
                          THEN crew_water_need + cfg.crop_daily_water_need
                          ELSE crew_water_need
      g == Grow(crops, crop_water_available, bio)
      waste1 == waste_water + (total_water_need * cfg.water_recycle_efficiency) \div 100
      oxy == RunOxygenators(1,
               [ machines |-> oxygenators, produced |-> 0,
                 available_power |-> available_power, total_power_need |-> base_power,
                 calls |-> NoCalls(Len(oxygenators)), out |-> NoCalls(Len(oxygenators)) ],
               cfg.oxygenator_power_cost, o2 < cfg.max_o2_tank, oxyDraws)
      rec == RunReclaimers(1,
               [ machines |-> water_reclaimers, produced |-> 0, waste_water |-> waste1,
                 available_power |-> oxy.available_power,
                 total_power_need |-> oxy.total_power_need,
                 calls |-> NoCalls(Len(water_reclaimers)),
                 out |-> NoCalls(Len(water_reclaimers)) ],
               cfg.water_reclaimer_power_cost, water < cfg.max_water_tank, recDraws)
      battery1 == ClampMax(battery + (power_gen - rec.total_power_need), cfg.max_battery)
      o2_1 == ClampMax(o2 + (oxy.produced + g.o2 - total_o2_need), cfg.max_o2_tank)
      water1 == ClampMax(water + (rec.produced - total_water_need), cfg.max_water_tank)
      food1 == food + (g.food - total_food_need)
      sc == SurvivalCheck(battery1, o2_1, water1, food1, alive, cause_of_death)
  IN  [ day |-> day1, env |-> sun.e, crops |-> g.c,
        oxygenators |-> oxy.machines, water_reclaimers |-> rec.machines,
        waste_water |-> rec.waste_water,
        battery |-> battery1, o2 |-> o2_1, water |-> water1, food |-> food1,
        alive |-> sc.alive, cause_of_death |-> sc.cause_of_death,
        locals |->
          [ battery_before |-> battery, o2_before |-> o2, water_before |-> water,
            power_gen |-> power_gen, available_power |-> available_power,
            total_power_need |-> rec.total_power_need,
            crop_water_available |-> crop_water_available,
            waste_before |-> waste1, water_reclaimed |-> rec.produced,
            o2_produced |-> oxy.produced, total_water_need |-> total_water_need,
            oxy_calls |-> oxy.calls, rec_calls |-> rec.calls,
            oxy_out |-> oxy.out, rec_out |-> rec.out ] ]

\* ------------------------------------------------- the draws a day can make
NoDraws(n) == [ i \in 1..n |-> 0 ]
Nominal == StepResult(0, 100, NoDraws(Len(oxygenators)), NoDraws(Len(water_reclaimers)))

\* a storm trigger is drawn on a calm day inside the risk window
StormDrawsToday ==
  IF ~env.is_storming /\ 200 < (day + 1) % 360 /\ (day + 1) % 360 < 300
  THEN StormDraws ELSE {0}

\* the bio factor is drawn unless grow() returns early
BioDrawsToday(nominal) ==
  IF Grow(crops, nominal.locals.crop_water_available, 100).zero THEN {100} ELSE BioFactors

\* a failure is drawn by every dispatched machine that is not broken
MachineDrawsToday(machines, calls) ==
  { d \in [ 1..Len(machines) -> FailureDraws ] :
      \A i \in 1..Len(machines) : d[i] > 0 => (calls[i] > 0 /\ ~machines[i].is_broken) }

Count(d) == Cardinality({ i \in DOMAIN d : d[i] > 0 })

Deviation(stormDraw, bio, oxyDraws, recDraws) ==
  (IF stormDraw > 0 THEN 1 ELSE 0) + (IF bio # 100 THEN 1 ELSE 0)
  + Count(oxyDraws) + Count(recDraws)

\* ---------------------------------------------------------------- run_mission
\* a loop without "if not self.alive: break"
LoopRuns_M5(i, isAlive) == i < mission_duration

\* "for _ in range(mission_duration): if not self.alive: break": the loop body
\* goes on to step() in iteration i
LoopRuns(i, isAlive) == i < mission_duration /\ isAlive

\* history.append({'day': self.day, ...})
HistoryAppend(h, snapshotDay) == [ len |-> h.len + 1, day |-> snapshotDay ]

\* self.step() with the result r, and the snapshot appended to history
ApplyStep(r) ==
  /\ day' = r.day
  /\ env' = r.env
  /\ crops' = r.crops
  /\ oxygenators' = r.oxygenators
  /\ water_reclaimers' = r.water_reclaimers
  /\ waste_water' = r.waste_water
  /\ battery' = r.battery
  /\ o2' = r.o2
  /\ water' = r.water
  /\ food' = r.food
  /\ alive' = r.alive
  /\ cause_of_death' = r.cause_of_death
  /\ last' = r.locals
  /\ history' = HistoryAppend(history, r.day)

\* one iteration of the for loop that calls step() and appends a snapshot
RunMissionStep ==
  /\ pc = "loop"
  /\ LoopRuns(iter, alive)
  /\ iter' = iter + 1
  /\ \E nominal \in {Nominal} :
     \E stormDraw \in StormDrawsToday, bio \in BioDrawsToday(nominal),
        oxyDraws \in MachineDrawsToday(oxygenators, nominal.locals.oxy_calls),
        recDraws \in MachineDrawsToday(water_reclaimers, nominal.locals.rec_calls) :
       /\ deviations + Deviation(stormDraw, bio, oxyDraws, recDraws) <= DrawBudget
       /\ deviations' = deviations + Deviation(stormDraw, bio, oxyDraws, recDraws)
       /\ \E r \in {StepResult(stormDraw, bio, oxyDraws, recDraws)} : ApplyStep(r)
  /\ UNCHANGED << cfg, crew, pc, unit, plot, sky, mcs, drought >>

\* while the drought lasts, every water reclaimer that draws a failure fails
DroughtDraws(machines, calls) ==
  { d \in [ 1..Len(machines) -> FailureDraws ] :
      \A i \in 1..Len(machines) :
        d[i] > 0 <=> (calls[i] > 0 /\ ~machines[i].is_broken) }

\* one iteration of the for loop in a mission whose only off-nominal draws are
\* those of a drought: from some day on every failure draw of the water
\* reclaimers fails, so that no water is reclaimed until the mission ends
DroughtStep ==
  /\ pc = "loop"
  /\ LoopRuns(iter, alive)
  /\ iter' = iter + 1
  /\ \E on \in (IF drought THEN {TRUE} ELSE BOOLEAN) :
       /\ drought' = on
       /\ \E nominal \in {Nominal} :
          \E recDraws \in (IF on THEN DroughtDraws(water_reclaimers, nominal.locals.rec_calls)
                                 ELSE {NoDraws(Len(water_reclaimers))}) :
            \E r \in {StepResult(0, 100, NoDraws(Len(oxygenators)), recDraws)} : ApplyStep(r)
  /\ UNCHANGED << cfg, crew, pc, deviations, unit, plot, sky, mcs >>

\* "if not self.alive: break", then the return
RunMissionBreak ==
  /\ pc = "loop"
  /\ iter < mission_duration
  /\ ~alive
  /\ pc' = "done"
  /\ UNCHANGED << cfg, crew, day, alive, cause_of_death, o2, water, waste_water, battery,
                  food, env, crops, oxygenators, water_reclaimers, iter, history, last,
                  deviations, unit, plot, sky, mcs, drought >>

\* the for loop runs out after mission_duration iterations, then the return
RunMissionEnd ==
  /\ pc = "loop"
  /\ iter >= mission_duration
  /\ pc' = "done"
  /\ UNCHANGED << cfg, crew, day, alive, cause_of_death, o2, water, waste_water, battery,
                  food, env, crops, oxygenators, water_reclaimers, iter, history, last,
                  deviations, unit, plot, sky, mcs, drought >>

\* --------------------------------------------- a Machine driven on its own
IdleUnit == [ m |-> NewMachine(750, 120), forced |-> 0, calls |-> << >> ]

\* a machine as built, or forced to is_broken = True with days_to_repair = n
UnitInit ==
  \E n \in 0..MaxRepair :
    unit = [ m |-> IF n = 0 THEN NewMachine(750, 120)
                   ELSE [ NewMachine(750, 120) EXCEPT !.is_broken = TRUE, !.days_to_repair = n ],
             forced |-> n, calls |-> << >> ]

\* one call of daily_check; calls records the failure draw and the value returned
UnitDailyCheck ==
  /\ Len(unit.calls) < MaxChecks
  /\ \E draw \in (IF unit.m.is_broken THEN {0} ELSE FailureDraws) :
       \E r \in {DailyCheck(unit.m, draw)} :
         unit' = [ unit EXCEPT !.m = r.m,
                               !.calls = Append(@, [ draw |-> draw, out |-> r.out ]) ]
  /\ UNCHANGED << colonyVars, plot, sky, mcs, drought >>

\* ------------------------------------------ a CropModule driven on its own
IdlePlot ==
  [ c |-> NewCrop(30000, 100), calls |-> 0, dry |-> 0,
    ret |-> [ has_water |-> TRUE, before |-> FOne, zero |-> FALSE, food |-> 0, o2 |-> 0 ] ]

\* one call of grow; dry counts the waterless calls made while all calls were
\* waterless, ret records the latest call
PlotGrow ==
  /\ plot.calls < MaxGrows
  /\ \E has_water \in BOOLEAN :
       \E bio \in (IF FLeq(HealthUpdate(plot.c.health, has_water), FZero)
                   THEN {100} ELSE BioFactors) :
         \E r \in {Grow(plot.c, has_water, bio)} :
           plot' = [ c |-> r.c, calls |-> plot.calls + 1,
                     dry |-> IF ~has_water /\ plot.dry = plot.calls THEN plot.dry + 1
                             ELSE plot.dry,
                     ret |-> [ has_water |-> has_water, before |-> plot.c.health,
                               zero |-> r.zero, food |-> r.food, o2 |-> r.o2 ] ]
  /\ UNCHANGED << colonyVars, unit, sky, mcs, drought >>

\* ------------------------------------- a MarsEnvironment driven on its own
\* the season angles (day % 360) the stand-alone environment is called with
SeasonAngles == {0, 90, 199, 200, 201, 250, 299, 300, 301, 359}

\* dur is the duration drawn by the latest trigger (0: none yet), since the
\* calls made after the triggering call (counted up to dur + 1), stormy those
\* of them that applied the storm opacity, ret the latest call
IdleSky ==
  [ e |-> NewEnvironment, dur |-> 0, since |-> 0, stormy |-> 0,
    ret |-> [ Ls |-> 0, was_storming |-> FALSE, storm_opacity |-> 0, eff |-> 0 ] ]

\* one call of get_sunlight_efficiency
SkyCall ==
  /\ \E Ls \in SeasonAngles :
       \E draw \in (IF ~sky.e.is_storming THEN StormDraws ELSE {0}) :
         \E r \in {GetSunlightEfficiency(sky.e, Ls, draw)} :
           LET triggered == ~sky.e.is_storming /\ r.e.is_storming
               counted == sky.dur > 0 /\ sky.since <= sky.dur
           IN  sky' = [ e |-> r.e,
                        dur |-> IF triggered THEN r.e.storm_counter ELSE sky.dur,
                        since |-> IF triggered THEN 0
                                  ELSE IF counted THEN sky.since + 1 ELSE sky.since,
                        stormy |-> IF triggered THEN 0
                                   ELSE IF counted /\ r.storm_opacity = 4
                                        THEN sky.stormy + 1 ELSE sky.stormy,
                        ret |-> [ Ls |-> Ls, was_storming |-> sky.e.is_storming,
                                  storm_opacity |-> r.storm_opacity, eff |-> r.eff ] ]
  /\ UNCHANGED << colonyVars, unit, plot, mcs, drought >>

\* -------------------------------------------------------------------- run_mcs
\* run_mcs not called
\* -------------------------------------------------------------------- run_mcs
\* death_reasons = {}
EmptyDict == [ k \in {} |-> 0 ]

\* the record with the cause of a single death counted once more
Tally_M13(d, cause) ==
  [ k \in DOMAIN d \cup {cause} |-> IF k = cause THEN 1 ELSE d[k] ]

\* death_reasons[cause] = death_reasons.get(cause, 0) + 1
Tally(d, cause) ==
  [ k \in DOMAIN d \cup {cause} |->
      IF k = cause THEN (IF k \in DOMAIN d THEN d[k] ELSE 0) + 1 ELSE d[k] ]

\* run_mcs not called
IdleMcs ==
  [ pc |-> "idle", experiment_mode |-> "CONTROL", n_simulations |-> 0,
    cfg |-> MCSimConfig("CONTROL"), trials |-> 0, success_count |-> 0,
    death_reasons |-> EmptyDict, success_rate |-> 0 ]

\* the experiment modes run_mcs is called with: the two of the main block that keep
\* a single oxygenator
McsModes == {"CONTROL", "BATTERY_TEST"}

\* run_mcs(mode, n) up to the head of its for loop
McsStart(mode, n) ==
  [ pc |-> "for", experiment_mode |-> mode, n_simulations |-> n,
    cfg |-> MCSimConfig(mode), trials |-> 0, success_count |-> 0,
    death_reasons |-> EmptyDict, success_rate |-> 0 ]

\* the for loop goes on without building a colony
McsNewTrial_M15 ==
  /\ mcs.pc = "for"
  /\ mcs.trials < mcs.n_simulations
  /\ mcs' = [ mcs EXCEPT !.pc = "mission" ]
  /\ pc' = "loop"
  /\ iter' = 0
  /\ history' = [ len |-> 0, day |-> 0 ]
  /\ deviations' = 0
  /\ UNCHANGED << cfg, crew, day, alive, cause_of_death, o2, water, waste_water, battery,
                  food, env, crops, oxygenators, water_reclaimers, last,
                  unit, plot, sky, drought >>

\* "for _ in range(n_simulations): colony = MarsColony(cfg)" and the call of
\* run_mission
McsNewTrial ==
  /\ mcs.pc = "for"
  /\ mcs.trials < mcs.n_simulations
  /\ mcs' = [ mcs EXCEPT !.pc = "mission" ]
  /\ \E k \in {NewColony(mcs.cfg, crew_size)} :
       /\ cfg' = k.cfg
       /\ crew' = k.crew
       /\ day' = k.day
       /\ alive' = k.alive
       /\ cause_of_death' = k.cause_of_death
       /\ o2' = k.o2
       /\ water' = k.water
       /\ waste_water' = k.waste_water
       /\ battery' = k.battery
       /\ food' = k.food
       /\ env' = k.env
       /\ crops' = k.crops
       /\ oxygenators' = k.oxygenators
       /\ water_reclaimers' = k.water_reclaimers
  /\ pc' = "loop"
  /\ iter' = 0
  /\ history' = [ len |-> 0, day |-> 0 ]
  /\ last' = NoStep(mcs.cfg)
  /\ deviations' = 0
  /\ UNCHANGED << unit, plot, sky, drought >>

\* run_mission has returned: "if survived: success_count += 1, else:
\* death_reasons[cause] = ..."
McsRecord ==
  /\ mcs.pc = "mission"
  /\ pc = "done"
  /\ mcs' = [ mcs EXCEPT
                !.pc = "for",
                !.trials = @ + 1,
                !.success_count = IF alive THEN @ + 1 ELSE @,
                !.death_reasons = IF alive THEN @ ELSE Tally(@, cause_of_death) ]
  /\ UNCHANGED << colonyVars, unit, plot, sky, drought >>

\* the loop is over: "success_rate = (success_count / n_simulations) * 100"
\* raises ZeroDivisionError when n_simulations is 0. The rate is kept in
\* hundredths of a percent.
McsFinish ==
  /\ mcs.pc = "for"
  /\ mcs.trials >= mcs.n_simulations
  /\ mcs' = IF mcs.n_simulations = 0
              THEN [ mcs EXCEPT !.pc = "raised" ]
              ELSE [ mcs EXCEPT !.pc = "returned",
                       !.success_rate = (mcs.success_count * 10000) \div mcs.n_simulations ]
  /\ UNCHANGED << colonyVars, unit, plot, sky, drought >>

\* ----------------------------------------------------------- specifications
\* a mission of the colony as run_mcs builds it
Init ==
  /\ \E mode \in Modes : ColonyInit(mode, crew_size)
  /\ unit = IdleUnit
  /\ plot = IdlePlot
  /\ sky = IdleSky
  /\ mcs = IdleMcs
  /\ drought = FALSE

Next == RunMissionStep \/ RunMissionBreak \/ RunMissionEnd

Spec == Init /\ [][Next]_vars

\* the same mission run with a crew of 0
InitCrew0 ==
  /\ \E mode \in Modes : ColonyInit(mode, 0)
  /\ unit = IdleUnit
  /\ plot = IdlePlot
  /\ sky = IdleSky
  /\ mcs = IdleMcs
  /\ drought = FALSE

SpecCrew0 == InitCrew0 /\ [][Next]_vars

\* a single Machine
InitMachine ==
  /\ ColonyInit("CONTROL", crew_size)
  /\ UnitInit
  /\ plot = IdlePlot
  /\ sky = IdleSky
  /\ mcs = IdleMcs
  /\ drought = FALSE

NextMachine == UnitDailyCheck

SpecMachine == InitMachine /\ [][NextMachine]_vars

\* a single CropModule
InitCrop ==
  /\ ColonyInit("CONTROL", crew_size)
  /\ unit = IdleUnit
  /\ plot = IdlePlot
  /\ sky = IdleSky
  /\ mcs = IdleMcs
  /\ drought = FALSE

NextCrop == PlotGrow

SpecCrop == InitCrop /\ [][NextCrop]_vars

\* a single MarsEnvironment
InitEnvironment ==
  /\ ColonyInit("CONTROL", crew_size)
  /\ unit = IdleUnit
  /\ plot = IdlePlot
  /\ sky = IdleSky
  /\ mcs = IdleMcs
  /\ drought = FALSE

NextEnvironment == SkyCall

SpecEnvironment == InitEnvironment /\ [][NextEnvironment]_vars

\* run_mcs called with a mode and a number of simulations; no colony is built
\* before the first trial
InitMcs ==
  /\ \E mode \in McsModes, n \in 0..MaxTrials :
       /\ mcs = McsStart(mode, n)
       /\ ColonyAt(mcs.cfg, crew_size, "none")
  /\ unit = IdleUnit
  /\ plot = IdlePlot
  /\ sky = IdleSky
  /\ drought = FALSE

NextMcs ==
  \/ McsNewTrial
  \/ RunMissionStep
  \/ RunMissionBreak
  \/ RunMissionEnd
  \/ McsRecord
  \/ McsFinish

SpecMcs == InitMcs /\ [][NextMcs]_vars

\* configurations and crew sizes the constructors accept although they are no
\* valid habitat: MCSimConfig.__init__ and MarsColony.__init__ test nothing, so
\* an attribute assigned after construction, or the module's crew_size, reaches
\* step() as it is
InvalidSettings ==
  { [ cfg |-> [MCSimConfig("CONTROL") EXCEPT !.max_o2_tank = -100], crew |-> crew_size ],
    [ cfg |-> [MCSimConfig("CONTROL") EXCEPT !.o2_production_rate = -750], crew |-> crew_size ],
    [ cfg |-> MCSimConfig("CONTROL"), crew |-> 0 ],
    [ cfg |-> MCSimConfig("BATTERY_TEST"), crew |-> -1 ] }

\* a mission of a colony built from such a configuration
InitInvalid ==
  /\ \E s \in InvalidSettings : ColonyStart(s.cfg, s.crew)
  /\ unit = IdleUnit
  /\ plot = IdlePlot
  /\ sky = IdleSky
  /\ mcs = IdleMcs
  /\ drought = FALSE

SpecInvalid == InitInvalid /\ [][Next]_vars

\* a mission that may run into a drought
InitDrought ==
  /\ \E mode \in Modes : ColonyInit(mode, crew_size)
  /\ unit = IdleUnit
  /\ plot = IdlePlot
  /\ sky = IdleSky
  /\ mcs = IdleMcs
  /\ drought = FALSE

NextDrought == DroughtStep \/ RunMissionBreak \/ RunMissionEnd

SpecDrought == InitDrought /\ [][NextDrought]_vars

\* ------------------------------------------------------------------ claims
SomeStockNegative == battery < 0 \/ o2 < 0 \/ water < 0 \/ food < 0

\* C1: while the colony is alive, battery, o2, water and food are all >= 0.
C1_AliveStocksNonNegative ==
  alive => (battery >= 0 /\ o2 >= 0 /\ water >= 0 /\ food >= 0)

\* an oxygenator failure has brought the oxygen below one day's need of the
\* crew and the colony is still alive
C1_Witness ==
  /\ alive /\ day >= 1
  /\ o2 >= 0 /\ o2 < cfg.daily_o2_consumption * crew
  /\ \E i \in DOMAIN oxygenators : oxygenators[i].is_broken

\* C2: after every step the oxygen, water and power stocks are at most
\* their configured maxima.
C2_StocksWithinMaxima ==
  /\ o2 <= cfg.max_o2_tank
  /\ water <= cfg.max_water_tank
  /\ battery <= cfg.max_battery

\* a step whose power balance exceeded max_battery, and was clamped to it
C2_Witness ==
  /\ day >= 1
  /\ last.battery_before + (last.power_gen - last.total_power_need) > cfg.max_battery
  /\ battery = cfg.max_battery

\* C3 as claimed: a mission with a crew of 0 never ends with alive = False.
C3_Crew0NeverDies == crew = 0 => alive

\* C3 as amended: a mission with a crew of 0 never runs out of oxygen, water
\* or food; it ends with alive = False only by "Power Failure".
C3_Crew0OnlyPowerFailure ==
  crew = 0 =>
    /\ o2 >= 0 /\ water >= 0 /\ food >= 0
    /\ ~alive => (cause_of_death = "Power Failure" /\ battery < 0)

\* a dust storm has drained the battery of a colony with a crew of 0
C3_Witness ==
  /\ crew = 0 /\ pc = "done" /\ ~alive
  /\ cause_of_death = "Power Failure"
  /\ env.is_storming

\* the label of the first negative stock in the order battery, o2, water, food
FirstNegativeLabel ==
  IF battery < 0 THEN "Power Failure"
  ELSE IF o2 < 0 THEN "Suffocation"
  ELSE IF water < 0 THEN "Dehydration"
  ELSE IF food < 0 THEN "Starvation"
  ELSE ""

C5_RunMission ==
  /\ [](/\ iter <= mission_duration
        /\ history.len = day /\ history.len = iter
        /\ (history.len > 0 => history.day = day)
        /\ (pc = "done" => IF alive THEN history.len = mission_duration
                                     ELSE history.len = day /\ day >= 1))
  /\ [][day' # day => (alive /\ day' = day + 1 /\ history'.len = history.len + 1)]_vars

\* a mission that returned after its crew died before the horizon
C5_Witness ==
  /\ pc = "done" /\ ~alive
  /\ history.len = day /\ day < mission_duration

\* C6 as claimed: each step calls daily_check once on every unit.
C6_EveryUnitCheckedDaily ==
  day >= 1 =>
    /\ \A i \in DOMAIN oxygenators : last.oxy_calls[i] = 1
    /\ \A i \in DOMAIN water_reclaimers : last.rec_calls[i] = 1

\* the gate of unit i of a machine loop that started with power p
PassedGate(p, cost, i, tank_before, tank_max) ==
  tank_before < tank_max /\ p - (i - 1) * cost >= cost

OxyCallsTotal == Cardinality({ i \in DOMAIN oxygenators : last.oxy_calls[i] > 0 })

\* C6 as amended: each step calls daily_check at most once on each unit, and
\* exactly on the units that pass the dispatch gate (available power at least
\* the unit's cost, its tank below max at the start of the day); a unit that
\* fails the gate is not checked that day.
C6_CheckedIffDispatched ==
  day >= 1 =>
    /\ \A i \in DOMAIN oxygenators :
         last.oxy_calls[i] =
           IF PassedGate(last.available_power, cfg.oxygenator_power_cost, i,
                         last.o2_before, cfg.max_o2_tank) THEN 1 ELSE 0
    /\ \A i \in DOMAIN water_reclaimers :
         last.rec_calls[i] =
           IF PassedGate(last.available_power - OxyCallsTotal * cfg.oxygenator_power_cost,
                         cfg.water_reclaimer_power_cost, i,
                         last.water_before, cfg.max_water_tank) THEN 1 ELSE 0

\* a day on which the oxygen tank was full: no oxygenator was checked, the
\* water reclaimer was
C6_Witness ==
  /\ day >= 1
  /\ last.o2_before = cfg.max_o2_tank
  /\ \A i \in DOMAIN oxygenators : last.oxy_calls[i] = 0
  /\ last.rec_calls[1] = 1

\* C7: a machine forced broken with days_to_repair = N returns 0 from each of
\* the next N calls of daily_check, and its nominal rate from call N + 1 when
\* no failure is drawn on that call.
C7_BrokenForNDays ==
  unit.forced >= 1 =>
    /\ \A k \in 1..Len(unit.calls) : k <= unit.forced => unit.calls[k].out = 0
    /\ (Len(unit.calls) > unit.forced /\ unit.calls[unit.forced + 1].draw = 0)
         => unit.calls[unit.forced + 1].out = unit.m.production_rate

\* a machine forced broken for MaxRepair days has produced again on the day after
C7_Witness ==
  /\ unit.forced = MaxRepair
  /\ Len(unit.calls) = unit.forced + 1
  /\ unit.calls[unit.forced].out = 0
  /\ unit.calls[unit.forced + 1].out = unit.m.production_rate
  /\ unit.m.production_rate > 0

\* C8: a machine that is not broken has days_to_repair = 0, a broken one has
\* days_to_repair >= 1.
C8_RepairCounter ==
  /\ ~unit.m.is_broken => unit.m.days_to_repair = 0
  /\ unit.m.is_broken => unit.m.days_to_repair >= 1

\* a machine built by __init__ has failed, and another call has gone by
C8_Witness ==
  /\ unit.forced = 0
  /\ Len(unit.calls) >= 2
  /\ unit.m.is_broken /\ unit.m.days_to_repair >= 1

\* C9: the water reclaimed in one step is at most the waste water present
\* when the reclaimer loop starts, and waste_water is never negative.
C9_ReclaimedWithinWaste ==
  /\ waste_water >= 0
  /\ last.water_reclaimed <= last.waste_before
  /\ waste_water = last.waste_before - last.water_reclaimed

\* a day on which the reclaimer could have processed more than the waste
\* tank held, and emptied it
C9_Witness ==
  /\ day >= 1
  /\ last.rec_calls[1] = 1
  /\ last.waste_before > 0
  /\ last.waste_before < cfg.water_reclamation_rate
  /\ last.water_reclaimed = last.waste_before
  /\ waste_water = 0

\* C10 as claimed: five waterless calls of grow from health 1.0 leave health
\* exactly 0 and the fifth returns (0, 0); health stays within [0, 1]; a call
\* that leaves health at 0 returns (0, 0).
C10_DeadAfterFiveDryDays ==
  /\ (plot.dry = 5 /\ plot.calls = 5) => (plot.c.health = FZero /\ plot.ret.zero)
  /\ FLeq(FZero, plot.c.health) /\ FLeq(plot.c.health, FOne)
  /\ (plot.calls > 0 /\ plot.c.health = FZero) => plot.ret.zero

\* C11: a calm environment has storm_counter = 0, and is_storming turns from
\* False to True only on a call made while calm with a season angle strictly
\* between 200 and 300 degrees.
C11_StormCounterAndTrigger ==
  /\ [](~sky.e.is_storming => sky.e.storm_counter = 0)
  /\ [][(~sky.e.is_storming /\ sky'.e.is_storming)
          => (/\ ~sky'.ret.was_storming
              /\ 200 < sky'.ret.Ls /\ sky'.ret.Ls < 300
              /\ sky'.e.storm_counter \in 5..15)]_vars

\* a storm was triggered inside the window, ran to its end, and left the
\* environment calm with the counter at 0
C11_Witness ==
  /\ sky.dur >= 5 /\ sky.since = sky.dur
  /\ ~sky.e.is_storming /\ sky.e.storm_counter = 0
  /\ sky.ret.was_storming

\* C18: after a trigger with duration N the triggering call adds no storm
\* opacity, exactly the next N calls add 4.0 whatever the season angle, after
\* the N-th of them the environment is calm with storm_counter 0; a call adds
\* the storm opacity exactly when is_storming was True when it started.
C18_StormLastsNDays ==
  /\ sky.ret.storm_opacity = (IF sky.ret.was_storming THEN 4 ELSE 0)
  /\ sky.dur > 0 =>
       /\ sky.dur \in 5..15
       /\ sky.since = 0 => (sky.ret.storm_opacity = 0 /\ sky.e.is_storming)
       /\ sky.stormy = Min(sky.since, sky.dur)
       /\ sky.since < sky.dur => (sky.e.is_storming /\ sky.e.storm_counter = sky.dur - sky.since)
       /\ sky.since = sky.dur => (~sky.e.is_storming /\ sky.e.storm_counter = 0)
       /\ (sky.since >= 1 /\ sky.since <= sky.dur)
            => (sky.ret.storm_opacity = 4 /\ sky.ret.eff = 200)

\* the last of the 15 stormy calls of a storm of 15 days, made outside the
\* risk window
C18_Witness ==
  /\ sky.dur = 15 /\ sky.since = 15 /\ sky.stormy = 15
  /\ sky.ret.storm_opacity = 4
  /\ sky.ret.Ls < 200
  /\ ~sky.e.is_storming

\* ----------------------------------------------------------------------- C12
\* C12 (as claimed): run_mcs called with n_simulations = 0 returns a defined
\* result and does not divide by zero. The code divides success_count by
\* n_simulations unconditionally, so the call raises ZeroDivisionError.
C12_ZeroTrialsReturns == mcs.n_simulations = 0 => mcs.pc # "raised"

\* ----------------------------------------------------------------------- C13
RECURSIVE DictSum(_)
DictSum(d) ==
  IF DOMAIN d = {} THEN 0
  ELSE LET k == CHOOSE x \in DOMAIN d : TRUE
       IN  d[k] + DictSum([ j \in DOMAIN d \ {k} |-> d[j] ])

CauseLabels == {"Suffocation", "Power Failure", "Dehydration", "Starvation"}

\* C13: throughout run_mcs, and so when it reports, every count of
\* death_reasons is positive, the counts add up to the number of trials run
\* minus success_count, and every key is one of the four cause labels; at the
\* report the number of trials run is n_simulations.
C13_DeathReasonsTally ==
  mcs.pc \in {"for", "mission", "returned"} =>
    /\ \A k \in DOMAIN mcs.death_reasons : mcs.death_reasons[k] > 0
    /\ DictSum(mcs.death_reasons) = mcs.trials - mcs.success_count
    /\ DOMAIN mcs.death_reasons \subseteq CauseLabels
    /\ (mcs.pc = "returned" => mcs.trials = mcs.n_simulations)

\* two trials died of the same cause and run_mcs has reported
C13_Witness ==
  /\ mcs.pc = "returned"
  /\ mcs.n_simulations = 2
  /\ mcs.success_count = 0
  /\ \E k \in DOMAIN mcs.death_reasons : mcs.death_reasons[k] = 2

\* ----------------------------------------------------------------------- C15
\* C15: every trial starts from the same fresh colony (day 0, alive, no
\* cause, the starting stocks, a calm environment, healthy crops, unbroken
\* machines) built from the configuration of the experiment mode, which no
\* trial changes; a trial that ends dead is recorded and the loop goes on until
\* n_simulations trials have run.
C15_TrialsStartFresh ==
  /\ [] ( mcs.pc # "idle" =>
            /\ mcs.cfg = MCSimConfig(mcs.experiment_mode)
            /\ cfg = mcs.cfg )
  /\ [] ( (mcs.pc = "mission" /\ pc = "loop" /\ iter = 0) =>
            \E k \in {NewColony(MCSimConfig(mcs.experiment_mode), crew_size)} :
              /\ day = k.day /\ alive = k.alive /\ cause_of_death = k.cause_of_death
              /\ o2 = k.o2 /\ water = k.water /\ waste_water = k.waste_water
              /\ battery = k.battery /\ food = k.food
              /\ env = k.env /\ crops = k.crops
              /\ oxygenators = k.oxygenators
              /\ water_reclaimers = k.water_reclaimers )
  /\ [] ( mcs.pc = "returned" => mcs.trials = mcs.n_simulations )
  /\ [][ (mcs.pc = "mission" /\ mcs'.pc = "for") =>
           /\ mcs'.trials = mcs.trials + 1
           /\ mcs'.cfg = mcs.cfg
           /\ mcs'.n_simulations = mcs.n_simulations ]_vars
  /\ [][ (mcs.pc = "for" /\ mcs.trials < mcs.n_simulations) => mcs'.pc = "mission" ]_vars

\* a second trial at its start, after a first trial that ended dead
C15_Witness ==
  /\ mcs.pc = "mission" /\ pc = "loop" /\ iter = 0
  /\ mcs.trials = 1
  /\ mcs.death_reasons # EmptyDict
  /\ day = 0 /\ alive

\* ----------------------------------------------------------------------- C16
RECURSIVE SeqSum(_)
SeqSum(s) == IF s = << >> THEN 0 ELSE s[1] + SeqSum(Tail(s))

\* units of a loop that pass the gate, given the power at the head of the loop
PassedTotal(p, cost, n, tank_before, tank_max) ==
  Cardinality({ i \in 1..n : PassedGate(p, cost, i, tank_before, tank_max) })

\* C16: in a step, a unit that fails the dispatch gate (its cost above the
\* available power, or its tank at max at the start of the day) produces
\* nothing, costs no power and keeps its is_broken and days_to_repair; the
\* water reclaimers are gated on the power left after the oxygenators'
\* deductions.
C16_GatedOutUnitsIdle ==
  [][ day' = day + 1 =>
        LET l == last'
            p_rec == l.available_power
                     - SeqSum(l.oxy_calls) * cfg.oxygenator_power_cost
        IN  /\ \A i \in DOMAIN oxygenators :
                 ~PassedGate(l.available_power, cfg.oxygenator_power_cost, i,
                             l.o2_before, cfg.max_o2_tank)
                 => /\ l.oxy_calls[i] = 0
                    /\ l.oxy_out[i] = 0
                    /\ oxygenators'[i] = oxygenators[i]
            /\ \A i \in DOMAIN water_reclaimers :
                 ~PassedGate(p_rec, cfg.water_reclaimer_power_cost, i,
                             l.water_before, cfg.max_water_tank)
                 => /\ l.rec_calls[i] = 0
                    /\ l.rec_out[i] = 0
                    /\ water_reclaimers'[i] = water_reclaimers[i]
            /\ l.o2_produced = SeqSum(l.oxy_out)
            /\ l.water_reclaimed = SeqSum(l.rec_out)
            /\ l.total_power_need <=
                 cfg.daily_base_power_consumption
                 + PassedTotal(l.available_power, cfg.oxygenator_power_cost,
                               Len(oxygenators), l.o2_before, cfg.max_o2_tank)
                   * cfg.oxygenator_power_cost
                 + PassedTotal(p_rec, cfg.water_reclaimer_power_cost,
                               Len(water_reclaimers), l.water_before, cfg.max_water_tank)
                   * cfg.water_reclaimer_power_cost ]_vars

\* a broken oxygenator was gated out and is still broken with its repair
\* days, on a day the water reclaimer ran
C16_Witness ==
  /\ day >= 1
  /\ \E i \in DOMAIN oxygenators :
       /\ last.oxy_calls[i] = 0
       /\ oxygenators[i].is_broken
       /\ oxygenators[i].days_to_repair > 0
  /\ last.rec_calls[1] = 1

\* ----------------------------------------------------------------------- C17
\* C17: every unit that passes the gate has its full power cost deducted,
\* also when its daily_check returns 0: the day's power need is the base draw
\* plus the cost of every dispatched unit, and the battery is charged with the
\* generation minus that need.
C17_DispatchedUnitsCharged ==
  day >= 1 =>
    /\ last.total_power_need >=
         cfg.daily_base_power_consumption
         + PassedTotal(last.available_power, cfg.oxygenator_power_cost,
                       Len(oxygenators), last.o2_before, cfg.max_o2_tank)
           * cfg.oxygenator_power_cost
         + PassedTotal(last.available_power
                         - SeqSum(last.oxy_calls) * cfg.oxygenator_power_cost,
                       cfg.water_reclaimer_power_cost,
                       Len(water_reclaimers), last.water_before, cfg.max_water_tank)
           * cfg.water_reclaimer_power_cost
    /\ battery = ClampMax(last.battery_before + last.power_gen - last.total_power_need,
                          cfg.max_battery)

\* a dispatched oxygenator returned 0 and was charged all the same
C17_Witness ==
  /\ day >= 1
  /\ \E i \in DOMAIN oxygenators : last.oxy_calls[i] = 1 /\ last.oxy_out[i] = 0
  /\ last.total_power_need >=
       cfg.daily_base_power_consumption + cfg.oxygenator_power_cost

\* ----------------------------------------------------------------------- C19
\* C19: the machines never cause a power failure: what they draw on top of
\* the base consumption stays within the power available after the base
\* draw, and the battery ends a step below 0 exactly when the battery at the
\* start of the day plus the day's generation is below the base draw.
C19_DispatchNeverOverdraws ==
  day >= 1 =>
    /\ last.available_power =
         last.battery_before + last.power_gen - cfg.daily_base_power_consumption
    /\ last.available_power >= 0 =>
         last.total_power_need - cfg.daily_base_power_consumption <= last.available_power
    /\ battery < 0 <=>
         last.battery_before + last.power_gen < cfg.daily_base_power_consumption
    /\ cause_of_death = "Power Failure" =>
         last.total_power_need = cfg.daily_base_power_consumption

\* a day on which the power left after the base draw covered the oxygenator
\* but not the water reclaimer after it, although the water tank was below
\* max: the reclaimer stayed off and the battery ended the day at 0 or above
C19_Witness ==
  /\ day >= 1
  /\ alive
  /\ last.available_power >= cfg.oxygenator_power_cost
  /\ last.oxy_calls[1] = 1
  /\ last.available_power - cfg.oxygenator_power_cost < cfg.water_reclaimer_power_cost
  /\ last.water_before < cfg.max_water_tank
  /\ last.rec_calls[1] = 0
  /\ battery >= 0

\* ----------------------------------------------------------------------- C14
\* a negative capacity or rate, a zero or negative MTBF, or a crew size <= 0
InvalidConfiguration(c, crewSize) ==
  \/ c.max_o2_tank < 0 \/ c.max_water_tank < 0 \/ c.max_battery < 0
  \/ c.solar_capacity < 0
  \/ c.o2_production_rate < 0 \/ c.water_reclamation_rate < 0
  \/ c.daily_o2_consumption < 0 \/ c.daily_water_consumption < 0
  \/ c.daily_food_consumption < 0 \/ c.daily_base_power_consumption < 0
  \/ c.oxygenator_mtbf <= 0 \/ c.water_reclaimer_mtbf <= 0
  \/ crewSize <= 0

\* C14 (as claimed): an invalid configuration is rejected when it is
\* constructed, so no simulation step ever runs with such values. The code
\* validates nothing: the colony is built and step() runs day after day.
C14_InvalidConfigNeverSteps == InvalidConfiguration(cfg, crew) => day = 0

\* ----------------------------------------------------------------------- C20
\* C20: the crops are told water is available on a day exactly when the water
\* stock at the start of the day is at least the crew's demand plus
\* crop_daily_water_need, and only then is the crop need part of the day's
\* water demand; a day with irrigated crops ends with water >= 0, so a
\* mission dies of "Dehydration" only on a day the crops ran waterless.
C20_IrrigationGate ==
  day >= 1 =>
    LET crew_need == CrewNeed(cfg.daily_water_consumption, crew)
    IN  /\ last.crop_water_available <=>
             last.water_before >= crew_need + cfg.crop_daily_water_need
        /\ last.total_water_need =
             IF last.crop_water_available
             THEN crew_need + cfg.crop_daily_water_need ELSE crew_need
        /\ water = ClampMax(last.water_before + last.water_reclaimed
                              - last.total_water_need, cfg.max_water_tank)
        /\ last.crop_water_available => water >= 0
        /\ cause_of_death = "Dehydration" => ~last.crop_water_available

\* a mission that irrigated its crops down to the last litres and died of
\* "Dehydration" on a day the crops got no water
C20_Witness ==
  /\ day >= 2
  /\ ~alive
  /\ cause_of_death = "Dehydration"
  /\ water < 0
  /\ ~last.crop_water_available
  /\ last.water_before >= 0
  /\ last.water_before < CrewNeed(cfg.daily_water_consumption, crew)
====
